---- MODULE Spec2Model ----
(***************************************************************************)
(* Model of the ingestion pipeline of the retrieval-augmented chat backend *)
(* (api/app/ingest.py, api/app/vectorstore.py, api/app/celery_app.py):     *)
(*   - the chunker _chunk, as the loop the code runs (SpecChunk);           *)
(*   - the orchestrator _ingest_dir over a directory tree and the Sink     *)
(*     (SpecIngest);                                                       *)
(*   - the Celery job queue, its workers and the status endpoint (Spec);   *)
(*     the same without status polls (SpecQueue), and with workers that    *)
(*     keep working (SpecLive).                                            *)
(* Texts are sequences of one-character strings; Python's text[a:b] is      *)
(* SubSeq(text, a + 1, b).                                                 *)
(***************************************************************************)
EXTENDS Integers, Sequences, FiniteSets, TLC

VARIABLES
    \* ---- _chunk: parameters, locals and position in the function
    text,           \* parameter text
    chunk_size,     \* parameter chunk_size
    overlap_arg,    \* parameter overlap as passed by the caller
    overlap,        \* local overlap after line 21 (the clamped value)
    start,          \* local start
    n,              \* local n = len(text)
    chunks,         \* local chunks
    spans,          \* history: <<start, end>> of every window appended
    cpc,            \* position: "entry", "loop", "done", or "off"
    \* ---- _ingest_dir and the Sink
    fs,             \* the file system: the directories that exist and the listing of entries
    index,          \* the Sink's index: the entries written by upsert_texts, in order
    upsert_calls,   \* number of calls of upsert_texts so far
    runs,           \* history: one record per finished run of _ingest_dir
    \* ---- the Celery queue, its workers, the result backend and the endpoints
    issued,         \* task id -> dir_path, for every id that delay() created
    returned,       \* the task ids that enqueue_ingest has returned to its caller
    enq,            \* the task id enqueue_ingest holds between lines 63 and 64, or NoTask
    queue,          \* the broker's ingest queue: task ids, oldest first
    backend,        \* the result backend: task id -> [status, result], for stored ids
    wpc,            \* worker -> "idle", "received", "started" or "stored"
    wtask,          \* worker -> the task id it holds unacknowledged, or NoTask
    executions,     \* history: task id -> number of times _ingest_dir was run for it
    lost,           \* history: number of workers lost so far
    poll,           \* ingest_status between its reads of the backend
    responses       \* history: the responses ingest_status has returned

chunkVars == <<text, chunk_size, overlap_arg, overlap, start, n, chunks, spans, cpc>>
ingestVars == <<fs, index, upsert_calls, runs>>
jobVars == <<issued, returned, enq, queue, backend, wpc, wtask, executions, lost,
             poll, responses>>

vars == <<chunkVars, ingestVars, jobVars>>

-----------------------------------------------------------------------------
(* Bounds of the model *)

\* longest text over the two-letter alphabet given to _chunk
MaxLen == 4
\* largest chunk_size given to _chunk
MaxChunk == 4
\* how far below 0 and above chunk_size the overlap argument ranges
OverlapSlack == 2

-----------------------------------------------------------------------------
(* Python builtins *)

Max(a, b) == IF a >= b THEN a ELSE b
Min(a, b) == IF a <= b THEN a ELSE b

\* text[a:b] for 0 <= a <= b <= len(text)
Slice(t, a, b) == SubSeq(t, a + 1, b)

-----------------------------------------------------------------------------
(* _chunk, ingest.py lines 19-28 *)

\* ClampOverlap as it would be with the lower clamp max(0, ...) left out
ClampOverlapNoFloor(ov, cs) == Min(ov, cs - 1)

\* line 21: overlap = max(0, min(overlap, chunk_size - 1))
ClampOverlap(ov, cs) == Max(0, Min(ov, cs - 1))

\* WindowEnd as it would be with a window one character too long
WindowEndTooLong(s, cs, len) == Min(s + cs + 1, len)

\* line 24: end = min(start + chunk_size, n)
WindowEnd(s, cs, len) == Min(s + cs, len)

\* NextStart as it would be with the next window starting one character late
NextStartSkipsOne(s, e, ov) == Max(e - ov + 1, s + 1)

\* line 27: start = max(end - overlap, start + 1)
NextStart(s, e, ov) == Max(e - ov, s + 1)

\* the while loop of lines 23-27 from a given start, as a function of start
RECURSIVE ChunkFrom(_, _, _, _)
ChunkFrom(t, cs, ov, s) ==
    IF s < Len(t)
    THEN LET e == WindowEnd(s, cs, Len(t))
         IN  IF e = Len(t)
             THEN <<Slice(t, s, e)>>
             ELSE <<Slice(t, s, e)>> \o ChunkFrom(t, cs, ov, NextStart(s, e, ov))
    ELSE <<>>

\* _chunk(text, chunk_size, overlap) as a value
_chunk(t, cs, ov) ==
    IF t = <<>> THEN <<>> ELSE ChunkFrom(t, cs, ClampOverlap(ov, cs), 0)

\* The texts given to _chunk in SpecChunk
Alphabet == {"a", "b"}
ScenarioText == <<"a", "b", "c", "d", "e", "f", "g", "h", "i", "j">>
RECURSIVE SeqsUpTo(_, _)
SeqsUpTo(S, k) ==
    IF k = 0 THEN {<<>>}
    ELSE LET prev == SeqsUpTo(S, k - 1)
         IN  prev \cup {Append(t, c) : t \in {u \in prev : Len(u) = k - 1}, c \in S}
ChunkTexts == SeqsUpTo(Alphabet, MaxLen) \cup {ScenarioText}

\* no queue, no worker, no request: the functions are called directly
NoTask == 0
JobsOff ==
    /\ issued = <<>>
    /\ returned = {}
    /\ enq = NoTask
    /\ queue = <<>>
    /\ backend = <<>>
    /\ wpc = <<>>
    /\ wtask = <<>>
    /\ executions = <<>>
    /\ lost = 0
    /\ poll = [pc |-> "idle"]
    /\ responses = {}

\* no directory, no Sink: _chunk is called on its own
IngestOff ==
    /\ fs = [dirs |-> {}, listing |-> <<>>]
    /\ index = <<>>
    /\ upsert_calls = 0
    /\ runs = <<>>

\* the call: parameters bound, nothing executed yet
InitChunk ==
    /\ text \in ChunkTexts
    /\ chunk_size \in 1..MaxChunk
    /\ overlap_arg \in (0 - OverlapSlack)..(chunk_size + OverlapSlack)
    /\ overlap = overlap_arg
    /\ start = 0
    /\ n = 0
    /\ chunks = <<>>
    /\ spans = <<>>
    /\ cpc = "entry"
    /\ IngestOff
    /\ JobsOff

\* line 20: the empty text returns []
ChunkReturnEmpty ==
    /\ cpc = "entry"
    /\ text = <<>>
    /\ cpc' = "done"
    /\ UNCHANGED <<text, chunk_size, overlap_arg, overlap, start, n, chunks, spans>>
    /\ UNCHANGED <<ingestVars, jobVars>>

\* lines 21-22: clamp the overlap, initialise the locals
ChunkEnter ==
    /\ cpc = "entry"
    /\ text # <<>>
    /\ overlap' = ClampOverlap(overlap_arg, chunk_size)
    /\ chunks' = <<>>
    /\ start' = 0
    /\ n' = Len(text)
    /\ cpc' = "loop"
    /\ UNCHANGED <<text, chunk_size, overlap_arg, spans>>
    /\ UNCHANGED <<ingestVars, jobVars>>

\* lines 23-27: one evaluation of the loop condition and, if it holds, of the body
ChunkLoop ==
    /\ cpc = "loop"
    /\ IF start < n
       THEN LET end == WindowEnd(start, chunk_size, n)
            IN  /\ chunks' = Append(chunks, Slice(text, start, end))
                /\ spans' = Append(spans, <<start, end>>)
                /\ IF end = n
                   THEN /\ cpc' = "done"
                        /\ start' = start
                   ELSE /\ cpc' = "loop"
                        /\ start' = NextStart(start, end, overlap)
       ELSE /\ cpc' = "done"
            /\ UNCHANGED <<chunks, spans, start>>
    /\ UNCHANGED <<text, chunk_size, overlap_arg, overlap, n>>
    /\ UNCHANGED <<ingestVars, jobVars>>

NextChunk == ChunkReturnEmpty \/ ChunkEnter \/ ChunkLoop

\* the interpreter runs the function to its end: every step that can be taken is
SpecChunk == InitChunk /\ [][NextChunk]_vars /\ WF_vars(NextChunk)

-----------------------------------------------------------------------------
(* Properties of _chunk *)

ChunkDone == cpc = "done"
InRange == overlap_arg >= 0 /\ overlap_arg < chunk_size
SpanStart(i) == spans[i][1]
SpanEnd(i) == spans[i][2]

\* after line 21 the overlap in use lies in [0, chunk_size - 1]
OverlapClamped == cpc \in {"loop", "done"} /\ text # <<>> => overlap \in 0..(chunk_size - 1)

\* each window starts strictly after the one before it
StartsIncrease == \A i \in 1..(Len(spans) - 1) : SpanStart(i + 1) > SpanStart(i)

\* C1: for every text, every chunk_size >= 1 and every integer overlap (negative
\* or >= chunk_size included), the overlap in use is clamped to
\* [0, chunk_size - 1], every window starts strictly after the previous one, and
\* _chunk terminates.
C1_ChunkTerminates == [](OverlapClamped /\ StartsIncrease) /\ <>ChunkDone

\* a finished call with an overlap >= chunk_size that produced three windows
C1_Witness ==
    /\ ChunkDone
    /\ overlap_arg >= chunk_size
    /\ overlap = chunk_size - 1
    /\ Len(spans) >= 3

\* C2: for a non-empty text and 0 <= overlap < chunk_size the windows cover the
\* text without gaps: the first starts at 0, each next one starts at or before
\* the end of the one before, the last ends at len(text), and every character
\* position lies in a window.
C2_Coverage ==
    ChunkDone /\ text # <<>> /\ InRange =>
        /\ Len(spans) >= 1
        /\ Len(chunks) = Len(spans)
        /\ SpanStart(1) = 0
        /\ \A i \in 1..(Len(spans) - 1) : SpanStart(i + 1) <= SpanEnd(i)
        /\ SpanEnd(Len(spans)) = Len(text)
        /\ \A i \in 1..Len(spans) : chunks[i] = Slice(text, SpanStart(i), SpanEnd(i))
        /\ \A p \in 0..(Len(text) - 1) :
               \E i \in 1..Len(spans) : SpanStart(i) <= p /\ p < SpanEnd(i)

\* a finished call with overlap 0 and several windows: consecutive windows touch
C2_Witness ==
    /\ ChunkDone
    /\ overlap_arg = 0
    /\ Len(spans) >= 2
    /\ SpanStart(2) = SpanEnd(1)

\* the reference sequence: window i (from 0) is
\* text[i*(chunk_size-overlap) : min(i*(chunk_size-overlap)+chunk_size, len(text))],
\* up to the first window whose end reaches len(text)
RefChunks(t, cs, ov) ==
    IF t = <<>> THEN <<>>
    ELSE LET step == cs - ov
             last == CHOOSE i \in 0..Len(t) :
                         /\ i * step + cs >= Len(t)
                         /\ \A j \in 0..(i - 1) : j * step + cs < Len(t)
         IN  [i \in 1..(last + 1) |->
                 SubSeq(t, (i - 1) * step + 1, Min((i - 1) * step + cs, Len(t)))]

\* C3: for chunk_size >= 1 and 0 <= overlap < chunk_size the result of _chunk is
\* the reference sequence; every window is non-empty and at most chunk_size long,
\* none starts at or beyond len(text), only the last ends at len(text), the empty
\* text gives the empty sequence, and chunk("abcdefghij", 4, 1) is
\* ["abcd", "defg", "ghij"].
C3_Reference ==
    /\ ChunkDone /\ text = <<>> => chunks = <<>> /\ _chunk(text, chunk_size, overlap_arg) = <<>>
    /\ ChunkDone /\ InRange =>
        /\ chunks = RefChunks(text, chunk_size, overlap_arg)
        /\ _chunk(text, chunk_size, overlap_arg) = RefChunks(text, chunk_size, overlap_arg)
        /\ \A i \in 1..Len(chunks) : Len(chunks[i]) >= 1 /\ Len(chunks[i]) <= chunk_size
        /\ \A i \in 1..Len(spans) : SpanStart(i) < Len(text)
        /\ \A i \in 1..Len(spans) : (SpanEnd(i) = Len(text)) <=> (i = Len(spans))
    /\ ChunkDone /\ text = ScenarioText /\ chunk_size = 4 /\ overlap_arg = 1 =>
        chunks = << <<"a", "b", "c", "d">>, <<"d", "e", "f", "g">>, <<"g", "h", "i", "j">> >>

\* the scenario call has finished with its three windows at 0, 3 and 6
C3_Witness ==
    /\ ChunkDone
    /\ text = ScenarioText /\ chunk_size = 4 /\ overlap_arg = 1
    /\ spans = << <<0, 4>>, <<3, 7>>, <<6, 10>> >>

-----------------------------------------------------------------------------
(* The file system seen by _ingest_dir.                                     *)
(* fs.dirs is the set of directory paths that exist; fs.listing holds the   *)
(* entries, each lying below the directory named by its field base, in the  *)
(* order in which the file system lists them: Path(base).rglob("*") yields  *)
(* the entries below base in that order, the same in every run as long as   *)
(* the directory is unchanged.  An entry is a directory or a file; a file   *)
(* has a suffix as written in its name, bytes (text formats), pages (PDF)   *)
(* and readable = FALSE when opening or parsing it raises.                  *)

\* a byte sequence that is not valid UTF-8
InvalidByte == "\\xff"
\* a PDF page whose extract_text() gives None or ""
NoText == <<>>
Newline == "\n"

Rep(c, k) == [i \in 1..k |-> c]

\* str.lower() on the suffixes the model uses
Lower(suffix) ==
    CASE suffix = ".MD" -> ".md"
      [] suffix = ".TXT" -> ".txt"
      [] suffix = ".PDF" -> ".pdf"
      [] OTHER -> suffix

\* lines 11-12: read_text(encoding="utf-8", errors="ignore") drops what does not decode
_read_text_file(p) == SelectSeq(p.bytes, LAMBDA b : b # InvalidByte)

\* lines 14-17: "\n".join((page.extract_text() or "") for page in r.pages)
RECURSIVE JoinPages(_)
JoinPages(pages) ==
    IF pages = <<>> THEN <<>>
    ELSE IF Len(pages) = 1 THEN pages[1]
    ELSE pages[1] \o <<Newline>> \o JoinPages(Tail(pages))
_read_pdf_file(p) == JoinPages(p.pages)

\* line 19: the defaults of _chunk, which _ingest_dir uses (line 45)
DefaultChunkSize == 800
DefaultOverlap == 120

\* line 46: hashlib.sha1(ch.encode("utf-8")).hexdigest(), taken as free of
\* collisions: the digest is a tagged copy of the text it was computed from, so
\* equal digests mean equal texts and the digest is never the text itself
Sha1Hex(ch) == [sha1 |-> ch]

\* SeenAdd as it would be if the digest were never recorded
SeenAddForgotten(seen, h) == seen

\* line 49: seen.add(h)
SeenAdd(seen, h) == seen \cup {h}

\* PairsAppend as it would be if the pair were put at the front of the list
PairsAppendFront(pairs, pair) == <<pair>> \o pairs

\* line 50: pairs.append((ch, {...}))
PairsAppend(pairs, pair) == Append(pairs, pair)

\* lines 45-50: the chunks chs[j..] of the file at path, against pairs and seen
RECURSIVE AddChunks(_, _, _, _, _)
AddChunks(chs, j, path, pairs, seen) ==
    IF j > Len(chs) THEN [pairs |-> pairs, seen |-> seen]
    ELSE LET ch == chs[j]
             h == Sha1Hex(ch)
         IN  IF h \in seen
             THEN AddChunks(chs, j + 1, path, pairs, seen)
             ELSE AddChunks(chs, j + 1, path,
                            PairsAppend(pairs, <<ch, [source |-> path, digest |-> h]>>),
                            SeenAdd(seen, h))

\* lines 36-50: the loop over the entries in the order rglob yields them; an
\* exception from a reader leaves the loop and the function
RECURSIVE WalkFiles(_, _, _, _)
WalkFiles(order, i, pairs, seen) ==
    IF i > Len(order) THEN [raised |-> FALSE, pairs |-> pairs]
    ELSE LET p == order[i]
             ext == Lower(p.suffix)
         IN  IF p.is_dir THEN WalkFiles(order, i + 1, pairs, seen)
             ELSE IF ext \in {".md", ".txt", ".pdf"}
             THEN IF ~p.readable
                  THEN [raised |-> TRUE, pairs |-> pairs]
                  ELSE LET raw == IF ext = ".pdf" THEN _read_pdf_file(p)
                                                  ELSE _read_text_file(p)
                           acc == AddChunks(_chunk(raw, DefaultChunkSize, DefaultOverlap),
                                            1, p.path, pairs, seen)
                       IN  WalkFiles(order, i + 1, acc.pairs, acc.seen)
             ELSE WalkFiles(order, i + 1, pairs, seen)

\* PathExists as it would be if the check of line 32 always passed
PathExistsAlways(fsys, dir_path) == TRUE

\* line 32: base.exists()
PathExists(fsys, dir_path) == dir_path \in fsys.dirs

\* base.rglob("*"): everything below base, in the order of the listing
Rglob(fsys, dir_path) == SelectSeq(fsys.listing, LAMBDA e : e.base = dir_path)

\* line 33
NotFoundResult(dir_path) == [status |-> "error", message |-> <<dir_path, " not found">>]
\* lines 52 and 54
OkResult(k) == [status |-> "ok", ingested |-> k]
NoResult == [status |-> "none"]

\* BatchIsEmpty as it would be with the test of line 51 left out
BatchIsEmptyNever(pairs) == FALSE

\* line 51: if not pairs
BatchIsEmpty(pairs) == pairs = <<>>

\* _ingest_dir as it would be if a missing directory raised FileNotFoundError
\* instead of being returned as a value
IngestDirRaisesNotFound(fsys, dir_path, sink_ok) ==
    IF ~PathExists(fsys, dir_path)
    THEN [raised |-> "notfound", result |-> NoResult, batches |-> <<>>]
    ELSE LET w == WalkFiles(Rglob(fsys, dir_path), 1, <<>>, {})
         IN  IF w.raised
             THEN [raised |-> "extract", result |-> NoResult, batches |-> <<>>]
             ELSE IF BatchIsEmpty(w.pairs)
             THEN [raised |-> "no", result |-> OkResult(0), batches |-> <<>>]
             ELSE IF ~sink_ok
             THEN [raised |-> "sink", result |-> NoResult, batches |-> <<w.pairs>>]
             ELSE [raised |-> "no", result |-> OkResult(Len(w.pairs)), batches |-> <<w.pairs>>]

\* _ingest_dir(dir_path), lines 30-54, as the outcome of one call: whether an
\* exception left it (and from where), its return value, and the batches it
\* handed to upsert_texts.  sink_ok says whether upsert_texts returns (TRUE) or
\* raises (FALSE).
_ingest_dir(fsys, dir_path, sink_ok) ==
    IF ~PathExists(fsys, dir_path)
    THEN [raised |-> "no", result |-> NotFoundResult(dir_path), batches |-> <<>>]
    ELSE LET w == WalkFiles(Rglob(fsys, dir_path), 1, <<>>, {})
         IN  IF w.raised
             THEN [raised |-> "extract", result |-> NoResult, batches |-> <<>>]
             ELSE IF BatchIsEmpty(w.pairs)
             THEN [raised |-> "no", result |-> OkResult(0), batches |-> <<>>]
             ELSE IF ~sink_ok
             THEN [raised |-> "sink", result |-> NoResult, batches |-> <<w.pairs>>]
             ELSE [raised |-> "no", result |-> OkResult(Len(w.pairs)), batches |-> <<w.pairs>>]

\* vectorstore.py lines 37-53: upsert_texts splits the pairs into texts and
\* metadatas and Milvus.from_texts adds one index entry per pair
upsert_texts(idx, pairs) ==
    idx \o [i \in 1..Len(pairs) |-> [text |-> pairs[i][1], metadata |-> pairs[i][2]]]

\* the index after a call of _ingest_dir with outcome r: a batch is written
\* when upsert_texts returned; a failed upsert is taken to write nothing
IndexAfter(idx, r) ==
    IF r.raised = "no" /\ r.batches # <<>> THEN upsert_texts(idx, r.batches[1]) ELSE idx

-----------------------------------------------------------------------------
(* The directories used by SpecIngest *)

\* most entries below the ingested directory
MaxEntries == 2
\* most runs of _ingest_dir in one behaviour
MaxRuns == 2

KB == "/kb"
Missing == "/missing"
Espresso == <<"E", "s", "p", "r", "e", "s", "s", "o", " ", "d", "o", "s", "e", " ", "1", "8", "g">>

File(path, suffix, bytes, pages, readable) ==
    [base |-> KB, path |-> path, is_dir |-> FALSE, suffix |-> suffix,
     bytes |-> bytes, pages |-> pages, readable |-> readable]
Dir(path, suffix) ==
    [base |-> KB, path |-> path, is_dir |-> TRUE, suffix |-> suffix,
     bytes |-> <<>>, pages |-> <<>>, readable |-> TRUE]

\* the entries a directory is built from: text files with the scenario text, with
\* an undecodable byte, empty, and long enough for two windows (equal or not);
\* PDFs with text, without text, and unreadable; a directory named like a
\* markdown file; files the pipeline does not recognise
CandidateEntries ==
    { File("/kb/a.md", ".md", Espresso, <<>>, TRUE),
      File("/kb/a.md", ".md", <<>>, <<>>, TRUE),
      File("/kb/a.md", ".md", Rep("x", 2 * DefaultChunkSize - DefaultOverlap), <<>>, TRUE),
      File("/kb/b.md", ".md", Espresso, <<>>, TRUE),
      File("/kb/b.md", ".md", <<InvalidByte>> \o Espresso, <<>>, TRUE),
      File("/kb/b.md", ".md", <<>>, <<>>, FALSE),
      File("/kb/sub/e.TXT", ".TXT", Rep("y", DefaultChunkSize + 1), <<>>, TRUE),
      File("/kb/c.pdf", ".pdf", <<>>, <<Espresso>>, TRUE),
      File("/kb/c.pdf", ".pdf", <<>>, <<NoText>>, TRUE),
      File("/kb/c.pdf", ".pdf", <<>>, <<Rep("x", DefaultChunkSize - 1), NoText>>, TRUE),
      File("/kb/c.pdf", ".pdf", <<>>, <<>>, FALSE),
      File("/kb/d.png", ".png", Espresso, <<>>, TRUE),
      Dir("/kb/notes.md", ".md") }

\* the listings of at most k entries, in every order, no path twice
RECURSIVE Listings(_)
Listings(k) ==
    IF k = 0 THEN {<<>>}
    ELSE LET prev == Listings(k - 1)
             full == {l \in prev : Len(l) = k - 1}
         IN  prev \cup
             UNION { { Append(l, e) :
                         e \in {c \in CandidateEntries :
                                   \A i \in 1..Len(l) : l[i].path # c.path} } :
                     l \in full }

\* the directories: /kb exists with at most MaxEntries entries, /missing does not
FileSystems == { [dirs |-> {KB}, listing |-> l] : l \in Listings(MaxEntries) }

ChunkOff ==
    /\ text = <<>> /\ chunk_size = 0 /\ overlap_arg = 0 /\ overlap = 0
    /\ start = 0 /\ n = 0 /\ chunks = <<>> /\ spans = <<>> /\ cpc = "off"

InitIngest ==
    /\ ChunkOff
    /\ JobsOff
    /\ fs \in FileSystems
    /\ index = <<>>
    /\ upsert_calls = 0
    /\ runs = <<>>

\* one call of _ingest_dir(dir_path), from entry to return or exception
RunIngest ==
    /\ Len(runs) < MaxRuns
    /\ \E dir_path \in {KB, Missing}, sink_ok \in BOOLEAN :
            LET r == _ingest_dir(fs, dir_path, sink_ok)
            IN  /\ index' = IndexAfter(index, r)
                /\ upsert_calls' = upsert_calls + Len(r.batches)
                /\ runs' = Append(runs, [dir_path |-> dir_path,
                                         raised |-> r.raised, result |-> r.result,
                                         batches |-> r.batches,
                                         index_before |-> Len(index),
                                         calls_before |-> upsert_calls])
    /\ UNCHANGED fs
    /\ UNCHANGED <<chunkVars, jobVars>>

NextIngest == RunIngest

SpecIngest == InitIngest /\ [][NextIngest]_vars

-----------------------------------------------------------------------------
(* Properties of _ingest_dir *)

Range(f) == {f[i] : i \in DOMAIN f}

\* a file the pipeline reads: not a directory, with a recognised extension
Eligible(e) == ~e.is_dir /\ Lower(e.suffix) \in {".md", ".txt", ".pdf"}

\* the text extracted from an eligible, readable file, and its windows
ExtractedText(e) == IF Lower(e.suffix) = ".pdf" THEN _read_pdf_file(e) ELSE _read_text_file(e)
FileChunks(e) == _chunk(ExtractedText(e), DefaultChunkSize, DefaultOverlap)

\* the distinct chunk texts of all eligible files below a directory
DistinctTexts(dir_path) ==
    UNION {Range(FileChunks(e)) : e \in {x \in Range(Rglob(fs, dir_path)) : Eligible(x)}}

\* the path of the first file in order among whose windows t occurs
FirstSource(order, t) ==
    LET first == CHOOSE i \in 1..Len(order) :
                    /\ Eligible(order[i]) /\ t \in Range(FileChunks(order[i]))
                    /\ \A j \in 1..(i - 1) :
                          ~(Eligible(order[j]) /\ t \in Range(FileChunks(order[j])))
    IN  order[first].path

BatchTexts(b) == {b[i][1] : i \in 1..Len(b)}

\* C4: in one run of _ingest_dir the batch handed to the Sink holds every
\* distinct chunk text of the eligible files exactly once, with the source of
\* the file that was processed first for that text, and the reported ingested
\* count is the number of distinct chunk texts.
C4_DedupWithinRun ==
    \A k \in 1..Len(runs) :
        LET r == runs[k]
        IN  /\ \A c \in 1..Len(r.batches) :
                  LET b == r.batches[c]
                  IN  /\ \A i, j \in 1..Len(b) : b[i][1] = b[j][1] => i = j
                      /\ BatchTexts(b) = DistinctTexts(r.dir_path)
                      /\ \A i \in 1..Len(b) :
                            /\ b[i][2].source = FirstSource(Rglob(fs, r.dir_path), b[i][1])
                            /\ b[i][2].digest = Sha1Hex(b[i][1])
            /\ r.raised = "no" /\ r.result.status = "ok" =>
                  /\ r.result.ingested = Cardinality(DistinctTexts(r.dir_path))
                  /\ (r.batches = <<>>) <=> (DistinctTexts(r.dir_path) = {})

\* the scenario: a.md and b.md both hold "Espresso dose 18g", b.md came first:
\* one chunk ingested, with source b.md
C4_Witness ==
    \E k \in 1..Len(runs) :
        LET r == runs[k]
        IN  /\ r.result = OkResult(1)
            /\ r.dir_path = KB
            /\ Len(fs.listing) = 2
            /\ fs.listing[1].path = "/kb/b.md" /\ fs.listing[2].path = "/kb/a.md"
            /\ FileChunks(fs.listing[1]) = <<Espresso>>
            /\ FileChunks(fs.listing[2]) = <<Espresso>>
            /\ r.batches = << << <<Espresso, [source |-> "/kb/b.md", digest |-> Sha1Hex(Espresso)]>> >> >>

\* the length of the index and the number of upsert_texts calls right after run k
IndexLenAfter(k) == IF k < Len(runs) THEN runs[k + 1].index_before ELSE Len(index)
CallsAfter(k) == IF k < Len(runs) THEN runs[k + 1].calls_before ELSE upsert_calls

\* run k returned after a successful upsert
Upserted(k) == runs[k].raised = "no" /\ runs[k].batches # <<>>

\* C5: a second run of the ingestion over the unchanged directory upserts no
\* chunk text that an earlier run already upserted (the index stays as the
\* first run left it).
C5_Idempotent ==
    \A k1, k2 \in 1..Len(runs) :
        k1 < k2 /\ runs[k1].dir_path = runs[k2].dir_path /\ Upserted(k1) /\ Upserted(k2) =>
            BatchTexts(runs[k2].batches[1]) \cap BatchTexts(runs[k1].batches[1]) = {}

\* an entry that contributes no chunk and does not stop the run: a directory, an
\* unrecognised extension, or a readable file without text
YieldsNothing(e) == ~Eligible(e) \/ (e.readable /\ ExtractedText(e) = <<>>)

C7_MissingDirectory ==
    \A k \in 1..Len(runs) :
        LET r == runs[k]
        IN  r.dir_path \notin fs.dirs =>
                /\ r.raised = "no"
                /\ r.result.status = "error"
                /\ "message" \in DOMAIN r.result
                /\ r.result # [status |-> "ok", ingested |-> 0]
                /\ r.batches = <<>>
                /\ CallsAfter(k) = r.calls_before
                /\ IndexLenAfter(k) = r.index_before

\* a run on the missing directory, after a run that did ingest
C7_Witness ==
    /\ Len(runs) = 2
    /\ Upserted(1)
    /\ runs[2].dir_path = Missing
    /\ runs[2].result = NotFoundResult(Missing)

\* the distinct chunk texts of the eligible files below a directory whose
\* extraction succeeds
ReadableTexts(dir_path) ==
    UNION {Range(FileChunks(e)) :
              e \in {x \in Range(Rglob(fs, dir_path)) : Eligible(x) /\ x.readable}}

\* C15: when the extraction of an eligible file fails (an unreadable file, a
\* corrupt PDF), the run does not raise: it skips that file, upserts the chunks
\* of every other eligible file and returns status ok with their count.
C15_ExtractionFailureSkipped ==
    \A k \in 1..Len(runs) :
        LET r == runs[k]
        IN  /\ PathExists(fs, r.dir_path)
            /\ \E e \in Range(Rglob(fs, r.dir_path)) : Eligible(e) /\ ~e.readable
            => /\ r.raised # "extract"
               /\ \A c \in 1..Len(r.batches) :
                     BatchTexts(r.batches[c]) = ReadableTexts(r.dir_path)
               /\ r.raised = "no" =>
                     r.result = OkResult(Cardinality(ReadableTexts(r.dir_path)))

\* the entry of the listing below a directory with the given path
EntryAt(dir_path, path) ==
    CHOOSE e \in Range(Rglob(fs, dir_path)) : e.path = path

\* the index of the first window of a file's windows that has text t
FirstPos(chs, t) ==
    CHOOSE i \in 1..Len(chs) : chs[i] = t /\ \A j \in 1..(i - 1) : chs[j] # t

\* C16: a run of _ingest_dir calls upsert_texts at most once, with the list of
\* all accepted pairs of all files (so after the last file was processed);
\* the accepted chunks of one source file stand in that list in their chunk
\* order, and the reported ingested count is the length of the list.
C16_SingleOrderedUpsert ==
    \A k \in 1..Len(runs) :
        LET r == runs[k]
        IN  /\ Len(r.batches) <= 1
            /\ CallsAfter(k) - r.calls_before = Len(r.batches)
            /\ \A c \in 1..Len(r.batches) :
                  LET b == r.batches[c]
                  IN  /\ \A e \in Range(Rglob(fs, r.dir_path)) :
                            Eligible(e) => Range(FileChunks(e)) \subseteq BatchTexts(b)
                      /\ \A i, j \in 1..Len(b) :
                            i < j /\ b[i][2].source = b[j][2].source =>
                                LET chs == FileChunks(EntryAt(r.dir_path, b[i][2].source))
                                IN  FirstPos(chs, b[i][1]) < FirstPos(chs, b[j][1])
                      /\ r.raised = "no" => r.result = OkResult(Len(b))
            /\ (r.raised = "no" /\ r.batches = <<>> /\ PathExists(fs, r.dir_path))
                  => r.result = OkResult(0)

\* a run whose one upsert holds two chunks of the first file, in their order,
\* and then a chunk of the file processed last
C16_Witness ==
    \E k \in 1..Len(runs) :
        LET r == runs[k]
        IN  /\ r.result = OkResult(3)
            /\ Len(r.batches) = 1
            /\ Len(r.batches[1]) = 3
            /\ r.batches[1][1][2].source = r.batches[1][2][2].source
            /\ r.batches[1][1][1] # r.batches[1][2][1]
            /\ r.batches[1][3][2].source = fs.listing[Len(fs.listing)].path
            /\ CallsAfter(k) = r.calls_before + 1

-----------------------------------------------------------------------------
(* The job queue: enqueue_ingest, the Celery workers running              *)
(* ingest_dir_task, the result backend, and ingest_status.                 *)
(* Configuration (celery_app.py lines 49-56): task_acks_late = True, so a  *)
(* message is acknowledged only after the task has run and a worker lost   *)
(* before that leaves it to be delivered again; task_track_started = True, *)
(* so a worker stores STARTED before it runs the task;                     *)
(* worker_prefetch_multiplier = 1, so a worker holds one message at a time.*)

\* most jobs enqueued in one behaviour
MaxJobs == 2
\* most workers lost in one behaviour
MaxLost == 1
\* most responses of ingest_status kept in one behaviour
MaxPolls == 2
\* the worker processes consuming the ingest queue
NumWorkers == 2

TaskIds == 1..MaxJobs
Workers == 1..NumWorkers
\* a task id that delay() never created
StrangerId == MaxJobs + 1

Pdfs == "/pdfs"
\* the directories of the deployment: /kb with one markdown file, /pdfs with a
\* PDF that cannot be parsed; /missing does not exist
JobFS ==
    [dirs |-> {KB, Pdfs},
     listing |-> << File("/kb/a.md", ".md", Espresso, <<>>, TRUE),
                    [File("/pdfs/c.pdf", ".pdf", <<>>, <<>>, FALSE) EXCEPT !.base = Pdfs] >>]

None == [none |-> TRUE]
NoRecord == [absent |-> TRUE]
READY_STATES == {"SUCCESS", "FAILURE", "REVOKED"}

\* what the backend holds for a task id: a task without a stored record reads
\* as PENDING with no result
Meta(id) ==
    IF id \in TaskIds /\ backend[id] # NoRecord
    THEN backend[id]
    ELSE [status |-> "PENDING", result |-> None]

\* the backend after a worker stores meta for id: a record already SUCCESS is
\* left as it is
StoreResult(id, meta) ==
    IF Meta(id).status = "SUCCESS" THEN backend ELSE [backend EXCEPT ![id] = meta]

InitJobs ==
    /\ ChunkOff
    /\ fs = JobFS
    /\ index = <<>>
    /\ upsert_calls = 0
    /\ runs = <<>>
    /\ issued = <<>>
    /\ returned = {}
    /\ enq = NoTask
    /\ queue = <<>>
    /\ backend = [id \in TaskIds |-> NoRecord]
    /\ wpc = [w \in Workers |-> "idle"]
    /\ wtask = [w \in Workers |-> NoTask]
    /\ executions = [id \in TaskIds |-> 0]
    /\ lost = 0
    /\ poll = [pc |-> "idle"]
    /\ responses = {}

\* EnqueuePublish as it would be if the handler called ingest_dir_task(dir_path)
\* itself instead of .delay(dir_path): the run happens in the request path
EnqueuePublishInline ==
    /\ enq = NoTask
    /\ Len(issued) < MaxJobs
    /\ \E dir_path \in {KB, Pdfs, Missing}, sink_ok \in BOOLEAN :
          LET id == Len(issued) + 1
              r == _ingest_dir(fs, dir_path, sink_ok)
          IN  /\ issued' = Append(issued, dir_path)
              /\ enq' = id
              /\ index' = IndexAfter(index, r)
              /\ upsert_calls' = upsert_calls + Len(r.batches)
              /\ executions' = [executions EXCEPT ![id] = @ + 1]
    /\ UNCHANGED <<fs, runs>>
    /\ UNCHANGED <<returned, queue, backend, wpc, wtask, lost, poll, responses>>
    /\ UNCHANGED chunkVars

\* ingest.py line 63: task = ingest_dir_task.delay(dir_path) creates the task id
\* and publishes the message to the ingest queue
EnqueuePublish ==
    /\ enq = NoTask
    /\ Len(issued) < MaxJobs
    /\ \E dir_path \in {KB, Pdfs, Missing} :
          /\ issued' = Append(issued, dir_path)
          /\ queue' = Append(queue, Len(issued) + 1)
          /\ enq' = Len(issued) + 1
    /\ UNCHANGED <<returned, backend, wpc, wtask, executions, lost, poll, responses>>
    /\ UNCHANGED <<chunkVars, ingestVars>>

\* EnqueueReturn as it would be if the handler waited for the job's result
\* (task.get()) before it returned
EnqueueReturnAfterResult ==
    /\ enq # NoTask
    /\ Meta(enq).status \in READY_STATES
    /\ returned' = returned \cup {enq}
    /\ enq' = NoTask
    /\ UNCHANGED <<issued, queue, backend, wpc, wtask, executions, lost, poll, responses>>
    /\ UNCHANGED <<chunkVars, ingestVars>>

\* ingest.py line 64: return {"task_id": task.id, "status": "queued"}
EnqueueReturn ==
    /\ enq # NoTask
    /\ returned' = returned \cup {enq}
    /\ enq' = NoTask
    /\ UNCHANGED <<issued, queue, backend, wpc, wtask, executions, lost, poll, responses>>
    /\ UNCHANGED <<chunkVars, ingestVars>>

\* WorkerReceive as it would be if the broker left a delivered message in the
\* queue for the next consumer
WorkerReceiveLeavesMessage(w) ==
    /\ wpc[w] = "idle"
    /\ queue # <<>>
    /\ wtask' = [wtask EXCEPT ![w] = Head(queue)]
    /\ queue' = queue
    /\ wpc' = [wpc EXCEPT ![w] = "received"]
    /\ UNCHANGED <<issued, returned, enq, backend, executions, lost, poll, responses>>
    /\ UNCHANGED <<chunkVars, ingestVars>>

\* an idle worker takes the oldest message; it stays unacknowledged
WorkerReceive(w) ==
    /\ wpc[w] = "idle"
    /\ queue # <<>>
    /\ wtask' = [wtask EXCEPT ![w] = Head(queue)]
    /\ queue' = Tail(queue)
    /\ wpc' = [wpc EXCEPT ![w] = "received"]
    /\ UNCHANGED <<issued, returned, enq, backend, executions, lost, poll, responses>>
    /\ UNCHANGED <<chunkVars, ingestVars>>

\* task_track_started: the worker stores STARTED before running the task
WorkerStart(w) ==
    /\ wpc[w] = "received"
    /\ backend' = StoreResult(wtask[w], [status |-> "STARTED", result |-> [hostname |-> w]])
    /\ wpc' = [wpc EXCEPT ![w] = "started"]
    /\ UNCHANGED <<issued, returned, enq, queue, wtask, executions, lost, poll, responses>>
    /\ UNCHANGED <<chunkVars, ingestVars>>

\* WorkerRun as it would be if the exception of a run were swallowed and no
\* result stored for it
WorkerRunDropsFailure(w) ==
    /\ wpc[w] = "started"
    /\ \E sink_ok \in BOOLEAN :
          LET id == wtask[w]
              r == _ingest_dir(fs, issued[id], sink_ok)
          IN  /\ index' = IndexAfter(index, r)
              /\ upsert_calls' = upsert_calls + Len(r.batches)
              /\ executions' = [executions EXCEPT ![id] = @ + 1]
              /\ backend' = IF r.raised = "no"
                            THEN StoreResult(id, [status |-> "SUCCESS", result |-> r.result])
                            ELSE backend
              /\ runs' = Append(runs, [task_id |-> id, worker |-> w,
                                       dir_path |-> issued[id], raised |-> r.raised,
                                       result |-> r.result, batches |-> r.batches,
                                       index_before |-> Len(index),
                                       calls_before |-> upsert_calls])
    /\ wpc' = [wpc EXCEPT ![w] = "stored"]
    /\ UNCHANGED fs
    /\ UNCHANGED <<issued, returned, enq, queue, wtask, lost, poll, responses>>
    /\ UNCHANGED chunkVars

\* ingest.py lines 56-58: ingest_dir_task runs _ingest_dir(dir_path); the worker
\* stores SUCCESS with the return value, or FAILURE with the exception
WorkerRun(w) ==
    /\ wpc[w] = "started"
    /\ \E sink_ok \in BOOLEAN :
          LET id == wtask[w]
              r == _ingest_dir(fs, issued[id], sink_ok)
          IN  /\ index' = IndexAfter(index, r)
              /\ upsert_calls' = upsert_calls + Len(r.batches)
              /\ executions' = [executions EXCEPT ![id] = @ + 1]
              /\ backend' = IF r.raised = "no"
                            THEN StoreResult(id, [status |-> "SUCCESS", result |-> r.result])
                            ELSE StoreResult(id, [status |-> "FAILURE",
                                                  result |-> [exception |-> r.raised]])
              /\ runs' = Append(runs, [task_id |-> id, worker |-> w,
                                       dir_path |-> issued[id], raised |-> r.raised,
                                       result |-> r.result, batches |-> r.batches,
                                       index_before |-> Len(index),
                                       calls_before |-> upsert_calls])
    /\ wpc' = [wpc EXCEPT ![w] = "stored"]
    /\ UNCHANGED fs
    /\ UNCHANGED <<issued, returned, enq, queue, wtask, lost, poll, responses>>
    /\ UNCHANGED chunkVars

\* task_acks_late: the message is acknowledged after the task has run
WorkerAck(w) ==
    /\ wpc[w] = "stored"
    /\ wtask' = [wtask EXCEPT ![w] = NoTask]
    /\ wpc' = [wpc EXCEPT ![w] = "idle"]
    /\ UNCHANGED <<issued, returned, enq, queue, backend, executions, lost, poll, responses>>
    /\ UNCHANGED <<chunkVars, ingestVars>>

\* a worker is lost (killed, or its broker connection drops) while it holds an
\* unacknowledged message: the broker delivers the message again
WorkerLost(w) ==
    /\ wpc[w] # "idle"
    /\ lost < MaxLost
    /\ queue' = Append(queue, wtask[w])
    /\ wtask' = [wtask EXCEPT ![w] = NoTask]
    /\ wpc' = [wpc EXCEPT ![w] = "idle"]
    /\ lost' = lost + 1
    /\ UNCHANGED <<issued, returned, enq, backend, executions, poll, responses>>
    /\ UNCHANGED <<chunkVars, ingestVars>>

\* ingest.py lines 68-69, first read: r.state.  AsyncResult keeps the record it
\* read only when that record is ready
PollReadState ==
    /\ poll.pc = "idle"
    /\ Cardinality(responses) < MaxPolls
    /\ \E id \in (DOMAIN issued) \cup {StrangerId} :
          poll' = [pc |-> "read", task_id |-> id, state |-> Meta(id).status,
                   cache |-> IF Meta(id).status \in READY_STATES THEN Meta(id) ELSE None]
    /\ UNCHANGED <<issued, returned, enq, queue, backend, wpc, wtask, executions, lost, responses>>
    /\ UNCHANGED <<chunkVars, ingestVars>>

\* ingest.py line 69, second read: r.result if r.ready() else None, then return
PollRespond ==
    /\ poll.pc = "read"
    /\ LET meta == IF poll.cache # None THEN poll.cache ELSE Meta(poll.task_id)
           result == IF meta.status \in READY_STATES THEN meta.result ELSE None
       IN  responses' = responses \cup
               {[task_id |-> poll.task_id, state |-> poll.state, result |-> result]}
    /\ poll' = [pc |-> "idle"]
    /\ UNCHANGED <<issued, returned, enq, queue, backend, wpc, wtask, executions, lost>>
    /\ UNCHANGED <<chunkVars, ingestVars>>

Next ==
    \/ EnqueuePublish
    \/ EnqueueReturn
    \/ \E w \in Workers : WorkerReceive(w)
    \/ \E w \in Workers : WorkerStart(w)
    \/ \E w \in Workers : WorkerRun(w)
    \/ \E w \in Workers : WorkerAck(w)
    \/ \E w \in Workers : WorkerLost(w)
    \/ PollReadState
    \/ PollRespond

Spec == InitJobs /\ [][Next]_vars

\* the request path of enqueue_ingest and the workers, without status polls
\* (which change nothing a worker or an enqueue reads)
NextQueue ==
    \/ EnqueuePublish
    \/ EnqueueReturn
    \/ \E w \in Workers : WorkerReceive(w)
    \/ \E w \in Workers : WorkerStart(w)
    \/ \E w \in Workers : WorkerRun(w)
    \/ \E w \in Workers : WorkerAck(w)
    \/ \E w \in Workers : WorkerLost(w)

\* a step of a live worker: a worker that is not lost goes on to receive,
\* start, run and acknowledge
WorkerStep ==
    \E w \in Workers :
        WorkerReceive(w) \/ WorkerStart(w) \/ WorkerRun(w) \/ WorkerAck(w)

SpecQueue == InitJobs /\ [][NextQueue]_vars

\* most jobs enqueued in one behaviour of the fair specification
MaxLiveJobs == 1

\* the request path and the workers as in NextQueue, for at most MaxLiveJobs jobs
NextLive ==
    \/ Len(issued) < MaxLiveJobs /\ EnqueuePublish
    \/ EnqueueReturn
    \/ \E w \in Workers : WorkerReceive(w)
    \/ \E w \in Workers : WorkerStart(w)
    \/ \E w \in Workers : WorkerRun(w)
    \/ \E w \in Workers : WorkerAck(w)
    \/ \E w \in Workers : WorkerLost(w)

\* workers that are not lost keep working: a worker step that stays possible
\* is taken
SpecLive == InitJobs /\ [][NextLive]_vars /\ WF_vars(WorkerStep)

-----------------------------------------------------------------------------
(* Properties of the job queue *)

\* the job states of the status endpoint: queued is PENDING, started is
\* STARTED, succeeded is SUCCESS, failed is FAILURE
Terminal == {"SUCCESS", "FAILURE"}

\* the steps a job's state may take: none, queued -> started, started -> terminal
StateStep(a, b) ==
    \/ a = b
    \/ a = "PENDING" /\ b = "STARTED"
    \/ a = "STARTED" /\ b \in Terminal

\* the state a poll of id reads after the step
MetaNext(id) ==
    IF backend'[id] # NoRecord THEN backend'[id] ELSE [status |-> "PENDING", result |-> None]

\* C8: the state of every job, as a poll reads it, moves only along
\* queued -> started -> (succeeded | failed); no terminal state is reached
\* except from started, and a terminal state never changes again, also when a
\* late-acknowledged task is delivered again.
C8_StateMachine ==
    [][\A id \in TaskIds : StateStep(Meta(id).status, MetaNext(id).status)]_vars

\* C9: the response to a poll of a task id that enqueue never returned differs
\* (apart from the echoed id) from the response to a poll of an enqueued job
\* that is not yet terminal.
C9_UnknownDistinct ==
    \A r1, r2 \in responses :
        /\ r1.task_id = StrangerId
        /\ r2.task_id \in returned
        /\ r2.state \notin Terminal
        => <<r1.state, r1.result>> # <<r2.state, r2.result>>

\* the values ingest_dir_task can return for a directory
ReturnValues(dir_path) ==
    {_ingest_dir(fs, dir_path, TRUE).result, _ingest_dir(fs, dir_path, FALSE).result} \ {NoResult}

\* C10: in every response of ingest_status the result is null when the
\* returned state is not terminal, and is the job's payload (the value
\* _ingest_dir returned, or the cause of the failure) when it is.
C10_ResultIffTerminal ==
    \A r \in responses :
        /\ r.state \notin Terminal => r.result = None
        /\ r.state = "SUCCESS" => r.result \in ReturnValues(issued[r.task_id])
        /\ r.state = "FAILURE" => r.result \in {[exception |-> "extract"], [exception |-> "sink"]}

\* C11: enqueue_ingest returns the job id without waiting for the run of that
\* job: once delay() has published the job, the return is possible in whatever
\* state the job is (queued, started or terminal), so it never requires the
\* job to be terminal.
C11_EnqueueNonBlocking ==
    enq # NoTask => ENABLED EnqueueReturn

\* an enqueue call has returned the id of a job that no worker has run yet
C11_Witness ==
    \E id \in returned : executions[id] = 0 /\ Meta(id).status \in {"PENDING", "STARTED"}

\* a worker has begun to execute job id: it stored STARTED and is running (or
\* has run) ingest_dir_task for it
Begun(id) ==
    \/ executions[id] > 0
    \/ \E w \in Workers : wtask[w] = id /\ wpc[w] \in {"started", "stored"}

\* C12 as stated: in every interleaving the enqueue call for a job has
\* returned before a worker begins executing that job.
C12_ReturnBeforeExecution ==
    \A id \in TaskIds : Begun(id) => id \in returned

\* C12, amended: a job is run only after delay() has published it, and only by
\* a worker that holds its message, in a step that is not a step of the request
\* path; the enqueue call returns without waiting for that worker, so the
\* worker may begin the job before the call has returned.
C12_HandoffToWorker ==
    [][\A id \in TaskIds :
          executions'[id] # executions[id] =>
              /\ id \in DOMAIN issued
              /\ \E w \in Workers :
                    wtask[w] = id /\ wpc[w] = "started" /\ wpc'[w] = "stored"
              /\ enq' = enq
              /\ returned' = returned]_vars

\* a worker has run a job whose enqueue call has not returned yet
C12_Witness ==
    \E id \in TaskIds : executions[id] > 0 /\ enq = id /\ id \notin returned

\* the message of job id waits in the ingest queue
InQueue(id) == \E i \in DOMAIN queue : queue[i] = id

\* the workers that hold the message of job id
Holders(id) == {w \in Workers : wtask[w] = id}

\* the workers that have run _ingest_dir for job id
Runners(id) == {runs[k].worker : k \in {j \in DOMAIN runs : runs[j].task_id = id}}

RunsOf(id) == {k \in DOMAIN runs : runs[k].task_id = id}

\* the message of job id has been acknowledged: the job has ended
Settled(id) == ~InQueue(id) /\ Holders(id) = {}

\* C14: a job during which the Sink's upsert failed ends in the failed state
\* with the cause as its result; it does not end in succeeded and its result
\* is not an ingested count.
C14_SinkFailureFails ==
    \A id \in DOMAIN issued :
        (Settled(id) /\ \E k \in RunsOf(id) : runs[k].raised = "sink")
            => Meta(id) = [status |-> "FAILURE", result |-> [exception |-> "sink"]]

\* C17: a job that has not been run yet reads as queued or started; with
\* workers that go on working, from some point on every enqueued job reads as
\* succeeded or failed, so no job stays queued or started forever, also when
\* its run raises.
C17_EventuallyTerminal ==
    /\ [](\A id \in DOMAIN issued :
             executions[id] = 0 => Meta(id).status \in {"PENDING", "STARTED"})
    /\ <>[](\A id \in DOMAIN issued : Meta(id).status \in Terminal)

\* a job whose run raised has ended in failed, after a worker was lost while
\* the job read as started
C17_Witness ==
    \E id \in DOMAIN issued :
        /\ Settled(id)
        /\ Meta(id).status = "FAILURE"
        /\ lost > 0
        /\ \E k \in RunsOf(id) : runs[k].raised # "no"

\* C18: a job enqueued for a directory that does not exist never reads as
\* failed; once it has ended it reads as succeeded, the state of a completed
\* ingestion, and its result is the value _ingest_dir returned: status error
\* with a message.
C18_MissingDirSucceeds ==
    \A id \in DOMAIN issued :
        ~PathExists(fs, issued[id]) =>
            /\ Meta(id).status # "FAILURE"
            /\ Settled(id) =>
                  /\ Meta(id).status = "SUCCESS"
                  /\ Meta(id).result = NotFoundResult(issued[id])
                  /\ Meta(id).result.status = "error"
                  /\ "message" \in DOMAIN Meta(id).result

\* the job for /missing has been run and acknowledged
C18_Witness ==
    \E id \in DOMAIN issued :
        /\ issued[id] = Missing
        /\ Settled(id)
        /\ executions[id] > 0
        /\ Meta(id) = [status |-> "SUCCESS", result |-> NotFoundResult(Missing)]

====
